---- MODULE Spec2Model ----
(***************************************************************************)
(* Model of netex.StreamServer (streamserver.go): the lifecycle state, the *)
(* listener field, the accept/dispatch loop and Close, executed by         *)
(* goroutines whose steps interleave at every access to shared data.       *)
(* Every atomic load/store of s.state and every access to s.listener is    *)
(* one step of the calling goroutine. What a handler does with its         *)
(* connection is the caller's code and is not modelled.                    *)
(***************************************************************************)
EXTENDS Integers, Sequences, FiniteSets

\* ------------------------------------------------------------------ bounds
\* Calls made on the server in one behaviour. Every call runs on a goroutine
\* of its own, and goroutine t makes the t-th call that takes its first step
\* (a goroutine that makes two calls in a row behaves as two goroutines of
\* which the second happens to start after the first has returned).
NumThreads == 3
\* connections that arrive at the listeners in one behaviour
MaxConns == 1
\* A burst of connections on few calls: the calls made and the connections
\* that arrive in one behaviour of SpecBurst
NumLoops == 2
MaxBurst == 2

Threads == 1..NumThreads

\* ------------------------------------------------------- program constants
StateInvalid == 0
StateIdle == 1
StateRunning == 2
StateShuttingDown == 3

\* the nil net.Listener: the zero value of the field s.listener
NilListener == 0

Starts == {"Serve", "ListenAndServe", "ListenAndServeTLS"}

\* what a goroutine that began a start call executes: the method or serve
InStart == Starts \cup {"serve"}

VARIABLES
    state,      \* s.state, accessed atomically
    listener,   \* s.listener: NilListener or the id of a listener
    open,       \* the listeners that are bound and not closed
    pc,         \* pc[t]: where goroutine t stands in its call
    op,         \* op[t]: the function t executes ("none" before it starts):
                \* the method called, and "serve" once that has called
                \* s.serve(l), whose code is the same for every caller
    l,          \* l[t]: the listener a start call serves on (the local l);
                \* the listener opened for call t has id t
    err,        \* err[t]: the local err of serve / Close
    ret,        \* ret[t]: what t's call returned ("none" until it returns)
    got,        \* got[t]: the caller's variable holding State()'s result
    conn,       \* conn[t]: the connection Accept returned to t, 0 if none
    nconn,      \* connections accepted so far (ids 1..nconn)
    dispatched, \* the connections handed to the handler, in dispatch order
    handling,   \* the connections a handler goroutine was started for
    postClose,  \* postClose[t]: a Close had returned nil when t's call began
    blocked,    \* blocked[t]: when t's Close began, an accept loop was
                \* waiting in Accept on an open listener
    crashed,    \* the process died of an unrecovered panic
    env         \* what the server's surroundings do in this behaviour:
                \* env.calls calls are made, env.conns connections arrive

vars == <<state, listener, open, pc, op, l, err, ret, got, conn, nconn,
          dispatched, handling, postClose, blocked, crashed, env>>

conns == <<conn, nconn, dispatched, handling>>

\* mutant: the constructor leaves the state the zero value
NewStreamServerNoStore ==
    /\ state = StateInvalid
    /\ listener = NilListener

\* NewStreamServer: listener is the zero value, state is stored as StateIdle.
NewStreamServer ==
    /\ state = StateIdle
    /\ listener = NilListener

\* No call has begun, no listener is open, no connection has arrived.
Fresh ==
    /\ open = {}
    /\ pc = [t \in Threads |-> "idle"]
    /\ op = [t \in Threads |-> "none"]
    /\ l = [t \in Threads |-> NilListener]
    /\ err = [t \in Threads |-> "nil"]
    /\ ret = [t \in Threads |-> "none"]
    /\ got = [t \in Threads |-> StateInvalid]
    /\ conn = [t \in Threads |-> 0]
    /\ nconn = 0
    /\ dispatched = <<>>
    /\ handling = {}
    /\ postClose = [t \in Threads |-> FALSE]
    /\ blocked = [t \in Threads |-> FALSE]
    /\ crashed = FALSE

\* The server after construction, with many calls and few connections ahead.
Init ==
    /\ NewStreamServer
    /\ Fresh
    /\ env = [calls |-> NumThreads, conns |-> MaxConns]

\* The server after construction, with few calls and a burst of connections
\* ahead.
InitBurst ==
    /\ NewStreamServer
    /\ Fresh
    /\ env = [calls |-> NumLoops, conns |-> MaxBurst]

\* calls begun so far, by kind
nStart == Cardinality({t \in Threads : op[t] \in InStart})
nClose == Cardinality({t \in Threads : op[t] = "Close"})

\* some Close has returned nil
closedOk == \E t \in Threads : op[t] = "Close" /\ ret[t] = "nil"

\* the accept loops waiting in Accept on an open listener
Waiting == {t \in Threads : pc[t] = "accept" /\ l[t] \in open}

\* Goroutine t can begin its call: the calls before it have begun.
CanCall(t) ==
    /\ ~crashed
    /\ pc[t] = "idle"
    /\ t <= env.calls
    /\ \A u \in Threads : u < t => pc[u] # "idle"

\* A goroutine can take the step at position p of its call.
At(t, p) == ~crashed /\ pc[t] = p

\* State(): one atomic load, returned to the caller.
State(t) ==
    /\ CanCall(t)
    /\ op' = [op EXCEPT ![t] = "State"]
    /\ got' = [got EXCEPT ![t] = state]
    /\ ret' = [ret EXCEPT ![t] = "nil"]
    /\ pc' = [pc EXCEPT ![t] = "done"]
    /\ postClose' = [postClose EXCEPT ![t] = closedOk]
    /\ UNCHANGED <<state, listener, open, l, err, conns, blocked, crashed,
                   env>>

\* ------------------------------------------------------------ start calls
\* mutant: the check lets a start through unless the server is Running
isReadyUnlessRunning == state # StateRunning

\* isReady: the atomic load of s.state compared with StateIdle.
isReady == state = StateIdle

\* A start call begins: if !s.isReady() { return ErrAlreadyRunning }.
\* Serve's caller passes a listener it has opened itself.
StartCheck(t, o) ==
    /\ CanCall(t)
    /\ op' = [op EXCEPT ![t] = o]
    /\ postClose' = [postClose EXCEPT ![t] = closedOk]
    /\ l' = [l EXCEPT ![t] = IF o = "Serve" THEN t ELSE NilListener]
    /\ open' = IF o = "Serve" THEN open \cup {t} ELSE open
    /\ IF isReady
         THEN /\ pc' = [pc EXCEPT ![t] = "store"]
              /\ UNCHANGED ret
         ELSE /\ pc' = [pc EXCEPT ![t] = "done"]
              /\ ret' = [ret EXCEPT ![t] = "ErrAlreadyRunning"]
    /\ UNCHANGED <<state, listener, err, got, conns, blocked, crashed, env>>

\* atomic.StoreInt32(&s.state, int32(StateRunning))
StartStore(t) ==
    /\ At(t, "store")
    /\ state' = StateRunning
    /\ pc' = [pc EXCEPT ![t] = IF op[t] = "Serve" THEN "setl" ELSE "listen"]
    /\ op' = [op EXCEPT ![t] = IF op[t] = "Serve" THEN "serve" ELSE @]
    /\ UNCHANGED <<listener, open, l, err, ret, got, conns, postClose,
                   blocked, crashed, env>>

\* net.Listen / tls.Listen returns a listener.
ListenOk(t) ==
    /\ At(t, "listen")
    /\ open' = open \cup {t}
    /\ l' = [l EXCEPT ![t] = t]
    /\ pc' = [pc EXCEPT ![t] = "setl"]
    /\ op' = [op EXCEPT ![t] = "serve"]
    /\ UNCHANGED <<state, listener, err, ret, got, conns, postClose, blocked,
                   crashed, env>>

\* mutant: the plain start forgets the deferred store, as the TLS start does
PlainListenFailNoStore(t) ==
    /\ At(t, "listen")
    /\ op[t] = "ListenAndServe"
    /\ ret' = [ret EXCEPT ![t] = "ErrBind"]
    /\ pc' = [pc EXCEPT ![t] = "done"]
    /\ UNCHANGED <<state, listener, open, op, l, err, got, conns, postClose,
                   blocked, crashed, env>>

\* ListenAndServe: net.Listen fails; the deferred store sets StateIdle and
\* the error is returned.
PlainListenFail(t) ==
    /\ At(t, "listen")
    /\ op[t] = "ListenAndServe"
    /\ state' = StateIdle
    /\ ret' = [ret EXCEPT ![t] = "ErrBind"]
    /\ pc' = [pc EXCEPT ![t] = "done"]
    /\ UNCHANGED <<listener, open, op, l, err, got, conns, postClose,
                   blocked, crashed, env>>

\* ListenAndServeTLS: tls.Listen fails; the error is returned, s.state is
\* not written.
TLSListenFail(t) ==
    /\ At(t, "listen")
    /\ op[t] = "ListenAndServeTLS"
    /\ ret' = [ret EXCEPT ![t] = "ErrBind"]
    /\ pc' = [pc EXCEPT ![t] = "done"]
    /\ UNCHANGED <<state, listener, open, op, l, err, got, conns, postClose,
                   blocked, crashed, env>>

\* ------------------------------------------------------------------ serve
\* s.listener = l
ServeSetListener(t) ==
    /\ At(t, "setl")
    /\ listener' = l[t]
    /\ pc' = [pc EXCEPT ![t] = "accept"]
    /\ UNCHANGED <<state, open, op, l, err, ret, got, conns, postClose,
                   blocked, crashed, env>>

\* l.Accept() returns a connection.
AcceptConn(t) ==
    /\ At(t, "accept")
    /\ l[t] \in open
    /\ nconn < env.conns
    /\ nconn' = nconn + 1
    /\ conn' = [conn EXCEPT ![t] = nconn + 1]
    /\ pc' = [pc EXCEPT ![t] = "dispatch"]
    /\ UNCHANGED <<state, listener, open, op, l, err, ret, got, dispatched,
                   handling, postClose, blocked, crashed, env>>

\* l.Accept() fails with a transport fault while the listener is open.
AcceptFault(t) ==
    /\ At(t, "accept")
    /\ l[t] \in open
    /\ err' = [err EXCEPT ![t] = "ErrAccept"]
    /\ pc' = [pc EXCEPT ![t] = "check"]
    /\ UNCHANGED <<state, listener, open, op, l, ret, got, conns, postClose,
                   blocked, crashed, env>>

\* l.Accept() fails because the listener is closed.
AcceptClosed(t) ==
    /\ At(t, "accept")
    /\ l[t] \notin open
    /\ err' = [err EXCEPT ![t] = "ErrClosed"]
    /\ pc' = [pc EXCEPT ![t] = "check"]
    /\ UNCHANGED <<state, listener, open, op, l, ret, got, conns, postClose,
                   blocked, crashed, env>>

\* mutant: the handler is called in the loop's goroutine (no go statement)
\* and the loop waits for its return
DispatchSync(t) ==
    /\ At(t, "dispatch")
    /\ dispatched' = Append(dispatched, conn[t])
    /\ handling' = handling \cup {conn[t]}
    /\ conn' = [conn EXCEPT ![t] = 0]
    /\ pc' = [pc EXCEPT ![t] = "handle"]
    /\ UNCHANGED <<state, listener, open, op, l, err, ret, got, nconn,
                   postClose, blocked, crashed, env>>

\* go s.handler.HandleConn(conn)
Dispatch(t) ==
    /\ At(t, "dispatch")
    /\ dispatched' = Append(dispatched, conn[t])
    /\ handling' = handling \cup {conn[t]}
    /\ conn' = [conn EXCEPT ![t] = 0]
    /\ pc' = [pc EXCEPT ![t] = "accept"]
    /\ UNCHANGED <<state, listener, open, op, l, err, ret, got, nconn,
                   postClose, blocked, crashed, env>>

\* mutant: the error is dropped when the state read is Running
ServeCheckRunning(t) ==
    /\ At(t, "check")
    /\ err' = [err EXCEPT ![t] = IF state = StateRunning THEN "nil" ELSE @]
    /\ pc' = [pc EXCEPT ![t] = "exit"]
    /\ UNCHANGED <<state, listener, open, op, l, ret, got, conns, postClose,
                   blocked, crashed, env>>

\* if atomic.LoadInt32(&s.state) == int32(StateShuttingDown) { err = nil }; break
ServeCheck(t) ==
    /\ At(t, "check")
    /\ err' = [err EXCEPT ![t] = IF state = StateShuttingDown THEN "nil" ELSE @]
    /\ pc' = [pc EXCEPT ![t] = "exit"]
    /\ UNCHANGED <<state, listener, open, op, l, ret, got, conns, postClose,
                   blocked, crashed, env>>

\* atomic.StoreInt32(&s.state, int32(StateIdle)); return
ServeExit(t) ==
    /\ At(t, "exit")
    /\ state' = StateIdle
    /\ ret' = [ret EXCEPT ![t] = err[t]]
    /\ pc' = [pc EXCEPT ![t] = "done"]
    /\ UNCHANGED <<listener, open, op, l, err, got, conns, postClose,
                   blocked, crashed, env>>

\* ------------------------------------------------------------------ Close
\* mutant: Close is refused only while Idle
CloseRefusedIfIdle == state = StateIdle

\* atomic.LoadInt32(&s.state) != int32(StateRunning)
CloseRefused == state # StateRunning

\* if ... != StateRunning { return ErrNotRunning }
CloseCheck(t) ==
    /\ CanCall(t)
    /\ op' = [op EXCEPT ![t] = "Close"]
    /\ postClose' = [postClose EXCEPT ![t] = closedOk]
    /\ blocked' = [blocked EXCEPT ![t] = Waiting # {}]
    /\ IF CloseRefused
         THEN /\ pc' = [pc EXCEPT ![t] = "done"]
              /\ ret' = [ret EXCEPT ![t] = "ErrNotRunning"]
         ELSE /\ pc' = [pc EXCEPT ![t] = "cstore"]
              /\ UNCHANGED ret
    /\ UNCHANGED <<state, listener, open, l, err, got, conns, crashed, env>>

\* mutant: Close stores the wrong state constant
CloseStoreIdle(t) ==
    /\ At(t, "cstore")
    /\ state' = StateIdle
    /\ pc' = [pc EXCEPT ![t] = "cclose"]
    /\ UNCHANGED <<listener, open, op, l, err, ret, got, conns, postClose,
                   blocked, crashed, env>>

\* atomic.StoreInt32(&s.state, int32(StateShuttingDown))
CloseStore(t) ==
    /\ At(t, "cstore")
    /\ state' = StateShuttingDown
    /\ pc' = [pc EXCEPT ![t] = "cclose"]
    /\ UNCHANGED <<listener, open, op, l, err, ret, got, conns, postClose,
                   blocked, crashed, env>>

\* mutant: Close also takes the dispatched connections away from their
\* handlers
CloseListenerAndConns(t) ==
    /\ At(t, "cclose")
    /\ err' = [err EXCEPT ![t] = IF listener = NilListener THEN "panic"
                                 ELSE IF listener \in open THEN "nil"
                                 ELSE "ErrClosed"]
    /\ open' = open \ {listener}
    /\ handling' = {}
    /\ pc' = [pc EXCEPT ![t] = "cdefer"]
    /\ UNCHANGED <<state, listener, op, l, ret, got, conn, nconn, dispatched,
                   postClose, blocked, crashed, env>>

\* s.listener.Close(): a nil listener panics, a closed one returns an error,
\* an open one is closed.
CloseListener(t) ==
    /\ At(t, "cclose")
    /\ err' = [err EXCEPT ![t] = IF listener = NilListener THEN "panic"
                                 ELSE IF listener \in open THEN "nil"
                                 ELSE "ErrClosed"]
    /\ open' = open \ {listener}
    /\ pc' = [pc EXCEPT ![t] = "cdefer"]
    /\ UNCHANGED <<state, listener, op, l, ret, got, conns, postClose,
                   blocked, crashed, env>>

\* mutant: Close returns without the deferred store of StateIdle
CloseReturnNoStore(t) ==
    /\ At(t, "cdefer")
    /\ crashed' = (err[t] = "panic")
    /\ pc' = [pc EXCEPT ![t] = IF err[t] = "panic" THEN "crashed" ELSE "done"]
    /\ ret' = [ret EXCEPT ![t] = err[t]]
    /\ UNCHANGED <<state, listener, open, op, l, err, got, conns, postClose,
                   blocked, env>>

\* defer atomic.StoreInt32(&s.state, int32(StateIdle)), then the return of
\* Close's result, or the panic leaving Close and ending the process.
CloseReturn(t) ==
    /\ At(t, "cdefer")
    /\ state' = StateIdle
    /\ crashed' = (err[t] = "panic")
    /\ pc' = [pc EXCEPT ![t] = IF err[t] = "panic" THEN "crashed" ELSE "done"]
    /\ ret' = [ret EXCEPT ![t] = err[t]]
    /\ UNCHANGED <<listener, open, op, l, err, got, conns, postClose,
                   blocked, env>>

\* ------------------------------------------------------------ the system
Next ==
    \/ \E t \in Threads : State(t)
    \/ \E t \in Threads : StartCheck(t, "Serve")
    \/ \E t \in Threads : StartCheck(t, "ListenAndServe")
    \/ \E t \in Threads : StartCheck(t, "ListenAndServeTLS")
    \/ \E t \in Threads : StartStore(t)
    \/ \E t \in Threads : ListenOk(t)
    \/ \E t \in Threads : PlainListenFail(t)
    \/ \E t \in Threads : TLSListenFail(t)
    \/ \E t \in Threads : ServeSetListener(t)
    \/ \E t \in Threads : AcceptConn(t)
    \/ \E t \in Threads : AcceptFault(t)
    \/ \E t \in Threads : AcceptClosed(t)
    \/ \E t \in Threads : Dispatch(t)
    \/ \E t \in Threads : ServeCheck(t)
    \/ \E t \in Threads : ServeExit(t)
    \/ \E t \in Threads : CloseCheck(t)
    \/ \E t \in Threads : CloseStore(t)
    \/ \E t \in Threads : CloseListener(t)
    \/ \E t \in Threads : CloseReturn(t)

Spec == Init /\ [][Next]_vars

SpecBurst == InitBurst /\ [][Next]_vars

\* ---------------------------------------------------------------- checks
\* goroutine t takes the first step of a start call
BeginsStart(t) == pc[t] = "idle" /\ op'[t] \in Starts

\* goroutine t takes the first step of Close
BeginsClose(t) == pc[t] = "idle" /\ op'[t] = "Close"

\* the accept loops that are active: goroutines inside serve's for loop
ActiveLoops == {t \in Threads : pc[t] \in {"accept", "dispatch"}}

\* C1: a start call that finds the state not Idle returns ErrAlreadyRunning
\* and changes nothing: the state, the listener field, the open listeners
\* (Serve's own listener, opened by its caller, aside), every other
\* goroutine's position and listener; it does not reach the bind.
C1_RejectedStartNoEffect ==
    [][\A t \in Threads :
         (BeginsStart(t) /\ state # StateIdle) =>
            /\ ret'[t] = "ErrAlreadyRunning"
            /\ pc'[t] = "done"
            /\ state' = state
            /\ listener' = listener
            /\ open' \ {t} = open
            /\ (op'[t] # "Serve" => l'[t] = NilListener /\ open' = open)
            /\ \A u \in Threads \ {t} : pc'[u] = pc[u] /\ l'[u] = l[u]]_vars

\* C1 happens: a start was rejected while another call's accept loop runs.
C1_Witness ==
    \E t, u \in Threads :
        /\ op[t] \in Starts /\ ret[t] = "ErrAlreadyRunning"
        /\ pc[u] = "accept" /\ l[u] \in open /\ state = StateRunning

\* C2: a Close that finds the state not Running returns ErrNotRunning, leaves
\* the state and the listener field unchanged and closes no listener.
C2_RejectedCloseNoEffect ==
    [][\A t \in Threads :
         (BeginsClose(t) /\ state # StateRunning) =>
            /\ ret'[t] = "ErrNotRunning"
            /\ pc'[t] = "done"
            /\ state' = state
            /\ listener' = listener
            /\ open' = open]_vars

\* C2 happens: a Close was refused while another Close was shutting the
\* server down and its listener was still open.
C2_Witness ==
    \E t \in Threads :
        /\ op[t] = "Close" /\ ret[t] = "ErrNotRunning"
        /\ state = StateShuttingDown /\ listener \in open

\* C3 (as claimed): with one start and one Close, begun while the accept
\* loop waited in Accept, and no transport fault, the start call returns nil
\* and the server is Idle once it has returned.
C3_CloseSuppressesAcceptError ==
    \A t, c \in Threads :
        (/\ nStart = 1 /\ nClose = 1
         /\ op[c] = "Close" /\ blocked[c]
         /\ op[t] = "serve" /\ pc[t] = "done" /\ ret[t] # "ErrAccept")
        => ret[t] = "nil" /\ state = StateIdle

\* C4: after a Close that returned nil, a start that begins (the only start
\* besides the one that was closed) finds the state Idle, so it is not
\* rejected with ErrAlreadyRunning, and the previous run does not end its
\* loop: its listener stays open and its Accept is not failed by a close.
C4_RestartAfterClose ==
    \A t \in Threads :
        (nStart = 2 /\ nClose = 1 /\ op[t] \in InStart /\ postClose[t]) =>
            /\ ret[t] # "ErrAlreadyRunning"
            /\ (pc[t] \in {"accept", "dispatch"} => l[t] \in open)
            /\ err[t] # "ErrClosed"

\* C4 happens: the restarted server is Running in its own accept loop.
C4_Witness ==
    \E t \in Threads :
        /\ nStart = 2 /\ nClose = 1 /\ postClose[t]
        /\ op[t] = "serve" /\ pc[t] = "accept" /\ l[t] \in open
        /\ listener = l[t] /\ state = StateRunning

\* C5: with one start and one Close, once Close has returned nil the state
\* is Idle from then on, and every State() call made after that returned
\* StateIdle.
C5_IdleAfterCloseReturns ==
    (nStart = 1 /\ nClose = 1 /\ closedOk) =>
        /\ state = StateIdle
        /\ \A t \in Threads :
             (op[t] = "State" /\ postClose[t]) => got[t] = StateIdle

\* C5 happens: State() was called after Close returned, while the accept
\* loop of the closed run had not yet returned.
C5_Witness ==
    /\ nStart = 1 /\ nClose = 1 /\ closedOk
    /\ \E t \in Threads : op[t] = "State" /\ postClose[t] /\ got[t] = StateIdle
    /\ \E u \in Threads : op[u] = "serve" /\ pc[u] # "done"

\* C6: when net.Listen fails in ListenAndServe, the call returns the bind
\* error and its last step leaves the state Idle; it has not stored a
\* listener (the field, the open listeners and its local l are untouched)
\* and it enters no accept loop.
C6_PlainBindFailure ==
    [][\A t \in Threads :
         (pc[t] = "listen" /\ op[t] = "ListenAndServe" /\ pc'[t] = "done") =>
            /\ ret'[t] = "ErrBind"
            /\ state' = StateIdle
            /\ listener' = listener /\ listener # t
            /\ open' = open
            /\ l[t] = NilListener /\ l'[t] = NilListener]_vars

\* C6 happens: ListenAndServe has returned the bind error, the state is Idle.
C6_Witness ==
    \E t \in Threads :
        /\ op[t] = "ListenAndServe" /\ ret[t] = "ErrBind"
        /\ state = StateIdle /\ listener = NilListener

\* C7 (as claimed): after ListenAndServeTLS returned the bind error, with no
\* other start and no Close, the state is Idle.
C7_TLSBindFailureRevertsToIdle ==
    \A t \in Threads :
        (/\ nStart = 1 /\ nClose = 0
         /\ op[t] = "ListenAndServeTLS" /\ ret[t] = "ErrBind")
        => state = StateIdle

\* no Close runs beside goroutine t's start call: none was called, or the
\* only one called had returned nil before t's call began
NoCloseBeside(t) == nClose = 0 \/ (nClose = 1 /\ postClose[t])

\* C8: with no Close in progress during a start call, its accept loop ends
\* only by a failed Accept, and the call then returns that failure and its
\* last step leaves the state Idle.
C8_AcceptFailureReturned ==
    [][\A t \in Threads :
         (NoCloseBeside(t) /\ pc[t] = "exit" /\ pc'[t] = "done") =>
            /\ ret'[t] = "ErrAccept"
            /\ state' = StateIdle]_vars

\* C8 happens: a start call returned the accept failure; no Close was made.
C8_Witness ==
    \E t \in Threads :
        /\ nClose = 0 /\ op[t] = "serve" /\ pc[t] = "done"
        /\ ret[t] = "ErrAccept" /\ state = StateIdle /\ l[t] \in open

\* C9 (as claimed): at most one accept loop is active at any time.
C9_AtMostOneAcceptLoop == Cardinality(ActiveLoops) <= 1

\* the changes of the state value along the cycle
Cycle ==
    {<<StateIdle, StateRunning>>, <<StateRunning, StateShuttingDown>>,
     <<StateShuttingDown, StateIdle>>}

C11_ListenerIffRunning ==
    (listener # NilListener) <=>
        (state \in {StateRunning, StateShuttingDown})

\* the connections accepted and not yet handed to a handler
Pending == {conn[t] : t \in {u \in Threads : pc[u] = "dispatch"}}

\* C12 (as claimed): the connections are dispatched in the order in which
\* Accept returned them, each once, and an accepted connection that is not
\* dispatched yet is held by a loop that is about to dispatch it.
C12_DispatchInAcceptOrder ==
    /\ \A i, j \in 1..Len(dispatched) :
         i < j => dispatched[i] < dispatched[j]
    /\ \A c \in 1..nconn :
         \/ \E i \in 1..Len(dispatched) : dispatched[i] = c
         \/ c \in Pending

\* goroutine t takes a step of Close or of the accept loop's exit
ClosesOrExits(t) ==
    /\ pc'[t] # pc[t]
    /\ \/ BeginsClose(t)
       \/ op[t] = "Close"
       \/ pc[t] \in {"check", "exit"}

\* C13: no step of Close and no step of the accept loop's exit changes the
\* connections that were handed to handlers, the order they were handed in,
\* or a connection a loop still holds.
C13_DispatchedUntouched ==
    [][\A t \in Threads :
         ClosesOrExits(t) =>
            /\ handling' = handling
            /\ dispatched' = dispatched
            /\ conn' = conn]_vars

\* C13 happens: Close returned nil and the accept loop returned while a
\* connection is with its handler.
C13_Witness ==
    /\ closedOk /\ handling # {}
    /\ \E t \in Threads : op[t] = "serve" /\ pc[t] = "done"
    /\ \A c \in 1..nconn : c \in handling

\* the positions inside serve's for loop, from the store of the listener on
LoopPcs == {"setl", "accept", "dispatch"}

\* the steps serve can take in goroutine t
ServeStep(t) ==
    \/ ServeSetListener(t)
    \/ AcceptConn(t)
    \/ AcceptFault(t)
    \/ AcceptClosed(t)
    \/ Dispatch(t)
    \/ ServeCheck(t)
    \/ ServeExit(t)

\* a start call leaves the for loop only by a failed Accept, and Accept on
\* an open listener fails only by a transport fault
LeavesLoopByFailedAccept(t) ==
    (op[t] = "serve" /\ pc[t] \in LoopPcs /\ pc'[t] \notin LoopPcs) =>
        /\ pc[t] = "accept" /\ pc'[t] = "check"
        /\ err'[t] \in {"ErrAccept", "ErrClosed"}
        /\ (l[t] \in open => err'[t] = "ErrAccept")

\* after a Close that returned nil, a start call that has not returned can
\* take its next step: nothing holds it up
ReturnsAfterClose ==
    \A t, c \in Threads :
        (/\ op[t] = "serve" /\ pc[t] # "done" /\ l[t] \notin open
         /\ op[c] = "Close" /\ pc[c] = "done" /\ ret[c] = "nil")
            => ENABLED ServeStep(t)

\* C14 (as claimed): a start call that has its listener leaves its loop only
\* after an Accept failed (on an open listener: by a fault), and after a
\* Close that returned nil it goes on, step by step, to its return.
C14_BlocksUntilStopped ==
    /\ []ReturnsAfterClose
    /\ [][\A t \in Threads : LeavesLoopByFailedAccept(t)]_vars

\* C15 (as claimed): with one start and one Close, when Close has returned
\* nil (the state is Idle by then) the accept loop has seen its Accept fail.
C15_IdleOnlyAfterLoopSawClose ==
    (nStart = 1 /\ nClose = 1 /\ closedOk) =>
        \A t \in Threads :
            op[t] = "serve" => pc[t] \in {"check", "exit", "done"}

\* a loop waiting in Accept takes the next connection whatever the handlers
\* do (in a process that no panic has ended)
AcceptsWhileHandling ==
    \A t \in Threads :
        (pc[t] = "accept" /\ l[t] \in open /\ nconn < env.conns /\ ~crashed)
            => ENABLED AcceptConn(t)

\* a loop whose listener was closed goes on to its exit whatever the
\* handlers do (in a process that no panic has ended)
StopsWhileHandling ==
    \A t \in Threads :
        (op[t] = "serve" /\ pc[t] \notin {"done", "setl"}
         /\ l[t] \notin open /\ handling # {} /\ ~crashed)
            => ENABLED ServeStep(t)

\* C16: the step that dispatches a connection puts the loop back at Accept,
\* with the connection handed to a handler; from there the loop accepts the
\* next connection and is stopped by Close though no handler has returned.
C16_LoopIndependentOfHandlers ==
    /\ [](AcceptsWhileHandling /\ StopsWhileHandling)
    /\ [][\A t \in Threads :
            (pc[t] = "dispatch" /\ pc'[t] # "dispatch") =>
                /\ pc'[t] = "accept"
                /\ handling' = handling \cup {conn[t]}]_vars

\* C16 happens: two connections were dispatched, neither handler returned,
\* and Close has stopped the loop.
C16_Witness ==
    /\ Len(dispatched) = 2 /\ Cardinality(handling) = 2
    /\ \E t \in Threads : op[t] = "serve" /\ pc[t] = "done" /\ ret[t] = "nil"

\* the Close calls that passed the Running check
PassedClose ==
    {t \in Threads :
        /\ op[t] = "Close"
        /\ \/ pc[t] \in {"cstore", "cclose", "cdefer", "crashed"}
           \/ pc[t] = "done" /\ ret[t] # "ErrNotRunning"}

\* C17 (as claimed): of the Close calls made on one run of the server, at
\* most one passes the state check.
C17_OneClosePasses == nStart = 1 => Cardinality(PassedClose) <= 1

\* C18 (as claimed): the listener a Close closes is open: s.listener.Close()
\* neither panics on a nil listener nor fails on a closed one.
C18_CloseFindsOpenListener ==
    \A t \in Threads : pc[t] = "cdefer" => err[t] = "nil"

\* C19 (as claimed): while an accept loop is active (one start call made),
\* the state is Running or ShuttingDown.
C19_LoopImpliesNotIdle ==
    (nStart = 1 /\ ActiveLoops # {}) =>
        state \in {StateRunning, StateShuttingDown}

\* C20: the state is Idle as long as no call has begun, and always one of
\* Idle, Running, ShuttingDown.
C20_StateNeverInvalid ==
    /\ state \in {StateIdle, StateRunning, StateShuttingDown}
    /\ (\A t \in Threads : pc[t] = "idle") => state = StateIdle

\* C20 happens: State() on the new server returned StateIdle, and some call
\* has later put the server into ShuttingDown.
C20_Witness ==
    /\ \E t \in Threads : op[t] = "State" /\ got[t] = StateIdle /\ t = 1
    /\ state = StateShuttingDown

====
